---- MODULE Spec2Model ----
(***************************************************************************)
(* A model of the poset crate: the derived comparisons of                 *)
(* PartialOrderBehaviour (traits.rs), Poset::maxima / minima /            *)
(* minima_in_pool / cover_in_pool / chain_decomposition / chain_from_pool *)
(* (poset.rs) and AntichainIterator (antichain_iterator.rs).              *)
(*                                                                         *)
(* Elements are values; the code holds references to them but only ever   *)
(* passes them to `ge` or compares them with `==` (Vec::contains), so a   *)
(* reference is modelled by the value it points to.  Rust indices are     *)
(* 0-based and are kept 0-based inside `indices`; sequences are 1-based.  *)
(***************************************************************************)
EXTENDS Integers, Sequences, FiniteSets, Bags

\* Longest element list drawn for a poset with an arbitrary relation.
MaxElems == 3

\* Most chains in a caller-assembled chain list handed to the iterator.
MaxChains == 3

\* Size of the posets drawn with a reflexive, antisymmetric relation.
MaxDistinct == 4

\* Number of values the bare relation is compared over.
NumCmpVals == 2

\* The doctest of lib.rs builds the poset over 1..16 (exclusive).
DocTop == 15

VARIABLES
    elements,   \* Poset.elements: Vec<T>
    compare,    \* Poset.compare: the set of pairs <<a, b>> with ge(a, b)
    step,       \* where the caller is
    vertices,   \* chain_decomposition: the live pool
    chains,     \* chain_decomposition: the chains found so far
    other,      \* chain_from_pool: the snapshot of the pool
    chain,      \* chain_from_pool: the chain being grown
    latest,     \* chain_from_pool: the tail of the chain, <<>> before a call
    vectors,    \* AntichainIterator.vectors
    indices,    \* AntichainIterator.indices
    finished,   \* AntichainIterator.finished
    visited,    \* history: every `indices` value next() has evaluated
    emitted,    \* history: every antichain next() has returned
    ret         \* the value the last call returned

vars == <<elements, compare, step, vertices, chains, other, chain, latest,
          vectors, indices, finished, visited, emitted, ret>>

decompVars == <<vertices, chains, other, chain, latest>>
iterVars == <<vectors, indices, finished, visited, emitted>>

-----------------------------------------------------------------------------
\* Option and Result values.

None == <<>>
Some(v) == <<v>>
Ok(v) == [ok |-> TRUE, val |-> v]
Err(e) == [ok |-> FALSE, err |-> e]

Range(s) == {s[i] : i \in DOMAIN s}

Contains(s, x) == \E i \in DOMAIN s : s[i] = x

-----------------------------------------------------------------------------
\* PartialOrderBehaviour (traits.rs), over the relation the poset holds.

ge(a, b) == <<a, b>> \in compare

le(a, b) == ge(b, a)

gt(a, b) == ge(a, b) /\ ~ge(b, a)

lt(a, b) == ge(b, a) /\ ~ge(a, b)

eq(a, b) == ge(a, b) /\ ge(b, a)

ip(a, b) == ~ge(a, b) /\ ~ge(b, a)

cp(a, b) == ge(a, b) \/ ge(b, a)

\* pc with the arms of the match in the wrong order.
pc_GreaterFirst(a, b) ==
    IF ge(a, b) THEN Some("Greater")
    ELSE IF ge(b, a) THEN Some("Less")
    ELSE IF ge(a, b) /\ ge(b, a) THEN Some("Equal")
    ELSE None

pc(a, b) ==
    IF ge(a, b) /\ ge(b, a) THEN Some("Equal")
    ELSE IF ge(a, b) THEN Some("Greater")
    ELSE IF ge(b, a) THEN Some("Less")
    ELSE None

-----------------------------------------------------------------------------
\* Poset queries (poset.rs).

\* The maxima filter with ge where the code has gt.
IsMaximalIn_Ge(pool, v) == ~\E i \in DOMAIN pool : ge(pool[i], v)

IsMaximalIn(pool, v) == ~\E i \in DOMAIN pool : gt(pool[i], v)

IsMinimalIn(pool, v) == ~\E i \in DOMAIN pool : lt(pool[i], v)

maxima ==
    IF elements = <<>> THEN Ok(<<>>)
    ELSE LET found == SelectSeq(elements, LAMBDA v : IsMaximalIn(elements, v))
         IN  IF found = <<>> THEN Err("NoMaxima") ELSE Ok(found)

minima ==
    IF elements = <<>> THEN Ok(<<>>)
    ELSE LET found == SelectSeq(elements, LAMBDA v : IsMinimalIn(elements, v))
         IN  IF found = <<>> THEN Err("NoMinima") ELSE Ok(found)

minima_in_pool(pool) ==
    Some(SelectSeq(pool, LAMBDA v : IsMinimalIn(pool, v)))

\* cover_in_pool with ge where the code has gt.
cover_in_pool_Ge(x, y, pool) ==
    IF ~ge(y, x) THEN FALSE
    ELSE ~\E i \in DOMAIN pool : lt(x, pool[i]) /\ lt(pool[i], y)

cover_in_pool(x, y, pool) ==
    IF ~gt(y, x) THEN FALSE
    ELSE ~\E i \in DOMAIN pool : lt(x, pool[i]) /\ lt(pool[i], y)

\* The `for x in &other` scan of chain_from_pool: the position of the first
\* element of the snapshot that covers `from`, 0 when the scan finds none.
FirstCover(from, pool) ==
    LET hits == {i \in DOMAIN pool : cover_in_pool(from, pool[i], pool)}
    IN  IF hits = {} THEN 0 ELSE CHOOSE i \in hits : \A j \in hits : i <= j

\* retain that drops the start of the chain only.
Retain_StartOnly(pool, ch) == SelectSeq(pool, LAMBDA x : x # ch[1])

\* pool.retain(|x| !chain.contains(x))
Retain(pool, ch) == SelectSeq(pool, LAMBDA x : ~Contains(ch, x))

-----------------------------------------------------------------------------
\* AntichainIterator (antichain_iterator.rs).

\* The filter_map of next(): the element each selected chain contributes, in
\* chain order; Vec::get gives nothing for an index past the chain's end.
RECURSIVE CombinationFrom(_, _)
CombinationFrom(ind, i) ==
    IF i > Len(ind) THEN <<>>
    ELSE LET rest == CombinationFrom(ind, i + 1)
         IN  IF ind[i] # None /\ ind[i][1] < Len(vectors[i])
             THEN <<vectors[i][ind[i][1] + 1]>> \o rest
             ELSE rest

Combination(ind) == CombinationFrom(ind, 1)

is_incomparable(combination) ==
    \A i \in DOMAIN combination : \A j \in DOMAIN combination :
        i < j => ~cp(combination[i], combination[j])

\* advance_indices whose carry arm leaves the index where it is.
AdvanceArm_NoReset(ind, i) ==
    IF ind[i] = None
    THEN IF vectors[i] # <<>>
         THEN [indices |-> [ind EXCEPT ![i] = Some(0)], stop |-> TRUE]
         ELSE [indices |-> ind, stop |-> FALSE]
    ELSE IF ind[i][1] + 1 < Len(vectors[i])
    THEN [indices |-> [ind EXCEPT ![i] = Some(ind[i][1] + 1)], stop |-> TRUE]
    ELSE [indices |-> ind, stop |-> FALSE]

\* advance_indices that selects index 0 of an empty chain.
AdvanceArm_SelectsEmpty(ind, i) ==
    IF ind[i] = None
    THEN [indices |-> [ind EXCEPT ![i] = Some(0)], stop |-> TRUE]
    ELSE IF ind[i][1] + 1 < Len(vectors[i])
    THEN [indices |-> [ind EXCEPT ![i] = Some(ind[i][1] + 1)], stop |-> TRUE]
    ELSE [indices |-> [ind EXCEPT ![i] = None], stop |-> FALSE]

\* One arm of the match in advance_indices, for chain i (1-based):
\* `stop` says the arm returned true.
AdvanceArm(ind, i) ==
    IF ind[i] = None
    THEN IF vectors[i] # <<>>
         THEN [indices |-> [ind EXCEPT ![i] = Some(0)], stop |-> TRUE]
         ELSE [indices |-> ind, stop |-> FALSE]
    ELSE IF ind[i][1] + 1 < Len(vectors[i])
    THEN [indices |-> [ind EXCEPT ![i] = Some(ind[i][1] + 1)], stop |-> TRUE]
    ELSE [indices |-> [ind EXCEPT ![i] = None], stop |-> FALSE]

\* The loop `for i in (0..len).rev()` from chain i down to the first one.
RECURSIVE AdvanceFrom(_, _)
AdvanceFrom(ind, i) ==
    IF i = 0 THEN [indices |-> ind, advanced |-> FALSE]
    ELSE LET arm == AdvanceArm(ind, i)
         IN  IF arm.stop THEN [indices |-> arm.indices, advanced |-> TRUE]
             ELSE AdvanceFrom(arm.indices, i - 1)

advance_indices(ind) == AdvanceFrom(ind, Len(ind))

-----------------------------------------------------------------------------
\* The posets and chain lists the model draws.

Max0(S) == IF S = {} THEN 0 ELSE CHOOSE m \in S : \A x \in S : x <= m

\* Element lists of length n up to renaming of the values: the first
\* occurrences of the values appear in the order 1, 2, 3, ...  Duplicates
\* are allowed, as in Vec<T>.
CanonicalLists(n) ==
    {s \in [1..n -> 1..n] :
        \A i \in 1..n : s[i] <= 1 + Max0({s[j] : j \in 1..(i - 1)})}

\* Reflexive, antisymmetric relations over 1..n (transitive or not).
StrictRelations(n) ==
    LET diag == {<<a, a>> : a \in 1..n}
        off == {p \in (1..n) \X (1..n) : p[1] # p[2]}
    IN  {diag \cup S : S \in {T \in SUBSET off :
                                \A p \in T : <<p[2], p[1]>> \notin T}}

IsPartialOrderOn(R, S) ==
    /\ \A a \in S : <<a, a>> \in R
    /\ \A a \in S : \A b \in S :
          (<<a, b>> \in R /\ <<b, a>> \in R) => a = b
    /\ \A a \in S : \A b \in S : \A c \in S :
          (<<a, b>> \in R /\ <<b, c>> \in R) => <<a, c>> \in R

\* The partial orders over 1..n.
PartialOrders(n) == {R \in StrictRelations(n) : IsPartialOrderOn(R, 1..n)}

\* lib.rs doctest: PartialOrder::new(|a, b| a % b == 0) over 1..16.
DocElements == [i \in 1..DocTop |-> i]
DocCompare == {p \in (1..DocTop) \X (1..DocTop) : p[1] % p[2] = 0}

\* The ways to cut list s into k consecutive chains, empty ones included.
Splits(s, k) ==
    IF k = 0 THEN (IF s = <<>> THEN {<<>>} ELSE {})
    ELSE LET n == Len(s)
             cuts == {c \in [0..k -> 0..n] :
                        /\ c[0] = 0
                        /\ c[k] = n
                        /\ \A j \in 1..k : c[j - 1] <= c[j]}
         IN  {[j \in 1..k |-> SubSeq(s, c[j - 1] + 1, c[j])] : c \in cuts}

NoCall == [kind |-> "none"]

CmpValues == 1..NumCmpVals

Start ==
    /\ step = "idle"
    /\ vertices = <<>>
    /\ chains = <<>>
    /\ other = <<>>
    /\ chain = <<>>
    /\ latest = None
    /\ vectors = <<>>
    /\ indices = <<>>
    /\ finished = FALSE
    /\ visited = <<>>
    /\ emitted = <<>>
    /\ ret = NoCall

\* Poset::with_elements over every short element list and every relation on
\* its values, and over MaxDistinct distinct elements and every partial order
\* on them; Poset::new over every relation on CmpValues; the doctest.
Init ==
    /\ \/ \E n \in 0..MaxElems : \E s \in CanonicalLists(n) :
            /\ elements = s
            /\ compare \in SUBSET (Range(s) \X Range(s))
       \/ /\ elements = [i \in 1..MaxDistinct |-> i]
          /\ compare \in PartialOrders(MaxDistinct)
       \/ /\ elements = <<>>
          /\ compare \in SUBSET (CmpValues \X CmpValues)
       \/ /\ elements = DocElements
          /\ compare = DocCompare
    /\ Start

\* Poset::with_elements over MaxDistinct distinct elements and every
\* reflexive, antisymmetric relation on them.
InitStrict ==
    /\ elements = [i \in 1..MaxDistinct |-> i]
    /\ compare \in StrictRelations(MaxDistinct)
    /\ Start

-----------------------------------------------------------------------------
\* The pure queries.  Their result is kept in `ret`; nothing else changes.
\* The derived comparisons read the relation alone, so they are drawn on the
\* posets built by Poset::new, whose relation ranges over CmpValues.

Compare(a, b) ==
    /\ step = "idle"
    /\ elements = <<>>
    /\ ret' = [kind |-> "compare", a |-> a, b |-> b,
               pc |-> pc(a, b), le |-> le(a, b), ge |-> ge(a, b),
               gt |-> gt(a, b), lt |-> lt(a, b), eq |-> eq(a, b),
               ip |-> ip(a, b), cp |-> cp(a, b)]
    /\ step' = "queried"
    /\ UNCHANGED <<elements, compare, decompVars, iterVars>>

CallMaxima ==
    /\ step = "idle"
    /\ ret' = [kind |-> "maxima", res |-> maxima]
    /\ step' = "queried"
    /\ UNCHANGED <<elements, compare, decompVars, iterVars>>

CallMinima ==
    /\ step = "idle"
    /\ ret' = [kind |-> "minima", res |-> minima]
    /\ step' = "queried"
    /\ UNCHANGED <<elements, compare, decompVars, iterVars>>

-----------------------------------------------------------------------------
\* chain_decomposition, one loop iteration at a time.

\* let mut vertices = elements; let mut chains = vec![];
ChainDecomposition ==
    /\ step = "idle"
    /\ vertices' = elements
    /\ chains' = <<>>
    /\ step' = "loop"
    /\ UNCHANGED <<elements, compare, other, chain, latest, iterVars, ret>>

\* `while !vertices.is_empty()` enters chain_from_pool, which snapshots the
\* pool, asks for its minima and starts the chain at elem[0].  The `?` on
\* ok_or returns the error; indexing an empty `elem` panics.  The pool is
\* never empty here, so the early `return Ok(vec![])` is not taken.
ChainFromPool ==
    /\ step = "loop"
    /\ vertices # <<>>
    /\ other' = vertices
    /\ LET elem == minima_in_pool(vertices)
       IN  IF elem = None
           THEN /\ step' = "done"
                /\ ret' = [kind |-> "decomposition",
                           res |-> Err("there should be a minimal element")]
                /\ UNCHANGED <<chain, latest>>
           ELSE IF elem[1] = <<>>
           THEN /\ step' = "panic"
                /\ UNCHANGED <<chain, latest, ret>>
           ELSE /\ chain' = <<elem[1][1]>>
                /\ latest' = Some(elem[1][1])
                /\ step' = "extend"
                /\ UNCHANGED ret
    /\ UNCHANGED <<elements, compare, vertices, chains, iterVars>>

\* One pass of `'outer: loop` that finds a covering element: push, continue.
\* The model follows the loop until the chain is longer than the snapshot,
\* which only a loop that never ends can reach.
ExtendChain ==
    /\ step = "extend"
    /\ Len(chain) <= Len(other)
    /\ LET i == FirstCover(latest[1], other)
       IN  /\ i # 0
           /\ chain' = Append(chain, other[i])
           /\ latest' = Some(other[i])
    /\ UNCHANGED <<elements, compare, step, vertices, chains, other,
                   iterVars, ret>>

\* The pass that finds none: break, retain, return Ok(chain) to the push.
FinishChain ==
    /\ step = "extend"
    /\ FirstCover(latest[1], other) = 0
    /\ vertices' = Retain(vertices, chain)
    /\ chains' = Append(chains, chain)
    /\ step' = "loop"
    /\ UNCHANGED <<elements, compare, other, chain, latest, iterVars, ret>>

\* The pool is empty: Ok(chains).
DecompositionReturn ==
    /\ step = "loop"
    /\ vertices = <<>>
    /\ step' = "done"
    /\ ret' = [kind |-> "decomposition", res |-> Ok(chains)]
    /\ UNCHANGED <<elements, compare, decompVars, iterVars>>

-----------------------------------------------------------------------------
\* Poset::antichains / AntichainIterator::new, and Iterator::next.

NewIterator(chs) ==
    /\ vectors' = chs
    /\ indices' = [i \in 1..Len(chs) |-> None]
    /\ finished' = FALSE
    /\ visited' = <<>>
    /\ emitted' = <<>>
    /\ step' = "iter"
    /\ UNCHANGED <<elements, compare, decompVars, ret>>

\* antichains(chain_decomposition()?)
AntichainsOfDecomposition ==
    /\ step = "done"
    /\ ret.res.ok
    /\ NewIterator(ret.res.val)

\* antichains(chains) with a chain list the caller assembled: any cut of a
\* list shorter than MaxElems into at most MaxChains chains, which need not
\* be chains of the relation and may be empty or share values.
AntichainsOfAny ==
    /\ step = "idle"
    /\ Len(elements) < MaxElems
    /\ \E k \in 0..MaxChains : \E chs \in Splits(elements, k) :
          NewIterator(chs)

\* next() that stops as soon as the counter wraps, before it has looked at
\* the combination it built.
NextPass_StopsAtWrap ==
    /\ step \in {"iter", "next"}
    /\ ~finished
    /\ LET combination == Combination(indices)
           adv == advance_indices(indices)
       IN  /\ indices' = adv.indices
           /\ finished' = (IF ~adv.advanced THEN TRUE ELSE finished)
           /\ visited' = Append(visited, indices)
           /\ IF ~adv.advanced
              THEN /\ ret' = [kind |-> "next", item |-> None]
                   /\ step' = "iter"
                   /\ UNCHANGED emitted
              ELSE IF is_incomparable(combination)
              THEN /\ emitted' = Append(emitted, combination)
                   /\ ret' = [kind |-> "next", item |-> Some(combination)]
                   /\ step' = "iter"
              ELSE /\ step' = "next"
                   /\ UNCHANGED <<emitted, ret>>
    /\ UNCHANGED <<elements, compare, vectors, decompVars>>

\* One pass of `while !self.finished`, the first of a call to next() (step
\* "iter") or a later one (step "next"): build the combination, advance,
\* and return it if it is an antichain; otherwise go round again.
NextPass ==
    /\ step \in {"iter", "next"}
    /\ ~finished
    /\ LET combination == Combination(indices)
           adv == advance_indices(indices)
       IN  /\ indices' = adv.indices
           /\ finished' = (IF ~adv.advanced THEN TRUE ELSE finished)
           /\ visited' = Append(visited, indices)
           /\ IF is_incomparable(combination)
              THEN /\ emitted' = Append(emitted, combination)
                   /\ ret' = [kind |-> "next", item |-> Some(combination)]
                   /\ step' = "iter"
              ELSE /\ step' = "next"
                   /\ UNCHANGED <<emitted, ret>>
    /\ UNCHANGED <<elements, compare, vectors, decompVars>>

\* The loop condition fails: next() returns None.
NextNone ==
    /\ step \in {"iter", "next"}
    /\ finished
    /\ ret' = [kind |-> "next", item |-> None]
    /\ step' = "iter"
    /\ UNCHANGED <<elements, compare, decompVars, iterVars>>

Next ==
    \/ \E a \in CmpValues : \E b \in CmpValues : Compare(a, b)
    \/ CallMaxima
    \/ CallMinima
    \/ ChainDecomposition
    \/ ChainFromPool
    \/ ExtendChain
    \/ FinishChain
    \/ DecompositionReturn
    \/ AntichainsOfDecomposition
    \/ AntichainsOfAny
    \/ NextPass
    \/ NextNone

Spec == Init /\ [][Next]_vars

\* chain_decomposition alone, over the reflexive, antisymmetric relations.
NextDecomposition ==
    \/ ChainDecomposition
    \/ ChainFromPool
    \/ ExtendChain
    \/ FinishChain
    \/ DecompositionReturn

DecompositionSpec == InitStrict /\ [][NextDecomposition]_vars

-----------------------------------------------------------------------------
\* Vocabulary of the properties.

Iterating == step \in {"iter", "next"}

\* The poset's relation is a partial order on the poset's elements.
ValidPartialOrder == IsPartialOrderOn(compare, Range(elements))

\* The elements of s at the positions in M, in order.
RECURSIVE PickFrom(_, _, _)
PickFrom(s, M, i) ==
    IF i > Len(s) THEN <<>>
    ELSE (IF i \in M THEN <<s[i]>> ELSE <<>>) \o PickFrom(s, M, i + 1)

\* How often each value occurs in s.
Occurrences(s) ==
    [v \in Range(s) |-> Cardinality({i \in DOMAIN s : s[i] = v})]

RECURSIVE Concat(_)
Concat(ss) == IF ss = <<>> THEN <<>> ELSE Head(ss) \o Concat(Tail(ss))

-----------------------------------------------------------------------------
\* C9: for every relation and every pair (a, b), exactly one of lt, eq, gt,
\* ip holds; cp(a, b) is ge(a, b) or ge(b, a); ip is the negation of cp; and
\* pc is Equal iff eq, Greater iff gt, Less iff lt, and no value iff ip.
C9_ComparisonsPartition ==
    ret.kind = "compare" =>
        LET ab == <<ret.a, ret.b>> \in compare
            ba == <<ret.b, ret.a>> \in compare
            n == Cardinality({k \in {"lt", "eq", "gt", "ip"} :
                     \/ k = "lt" /\ ret.lt
                     \/ k = "eq" /\ ret.eq
                     \/ k = "gt" /\ ret.gt
                     \/ k = "ip" /\ ret.ip})
        IN  /\ ret.ge = ab
            /\ n = 1
            /\ ret.cp = (ab \/ ba)
            /\ ret.ip = ~ret.cp
            /\ (ret.pc = Some("Equal")) = ret.eq
            /\ (ret.pc = Some("Greater")) = ret.gt
            /\ (ret.pc = Some("Less")) = ret.lt
            /\ (ret.pc = None) = ret.ip
            /\ ret.lt = (ba /\ ~ab)
            /\ ret.gt = (ab /\ ~ba)

\* Two different values compared, the first strictly below the second.
C9_Witness ==
    /\ ret.kind = "compare"
    /\ ret.a # ret.b
    /\ ret.pc = Some("Less")
    /\ ~ret.ge

-----------------------------------------------------------------------------
\* C8: maxima() is Ok(empty) for an empty poset; otherwise it is Ok of the
\* elements with no element strictly above them, in element order, and
\* Err(NoMaxima) exactly when there is none (as on a three-element dominance
\* cycle); minima() is the same with lt and NoMinima.
C8_MaximaMinima ==
    LET above(i) == \E j \in DOMAIN elements :
                        /\ <<elements[j], elements[i]>> \in compare
                        /\ <<elements[i], elements[j]>> \notin compare
        below(i) == \E j \in DOMAIN elements :
                        /\ <<elements[i], elements[j]>> \in compare
                        /\ <<elements[j], elements[i]>> \notin compare
        top == {i \in DOMAIN elements : ~above(i)}
        bottom == {i \in DOMAIN elements : ~below(i)}
    IN  /\ ret.kind = "maxima" =>
              IF elements = <<>> THEN ret.res = Ok(<<>>)
              ELSE IF top = {} THEN ret.res = Err("NoMaxima")
              ELSE ret.res = Ok(PickFrom(elements, top, 1))
        /\ ret.kind = "minima" =>
              IF elements = <<>> THEN ret.res = Ok(<<>>)
              ELSE IF bottom = {} THEN ret.res = Err("NoMinima")
              ELSE ret.res = Ok(PickFrom(elements, bottom, 1))

\* maxima() on three elements a, b, c with gt(a, b), gt(b, c), gt(c, a).
C8_Witness ==
    /\ ret.kind = "maxima"
    /\ Len(elements) = 3
    /\ gt(elements[1], elements[2])
    /\ gt(elements[2], elements[3])
    /\ gt(elements[3], elements[1])
    /\ ret.res = Err("NoMaxima")

-----------------------------------------------------------------------------
\* C1: for a non-empty poset (duplicate values allowed), the chains that
\* chain_decomposition() returns partition the element multiset: their
\* concatenation holds every element exactly as often as the poset does.
C1_ChainsPartitionElements ==
    (ret.kind = "decomposition" /\ ret.res.ok /\ elements # <<>>) =>
        Occurrences(Concat(ret.res.val)) = Occurrences(elements)

-----------------------------------------------------------------------------
\* C3: under a valid partial order every chain of chain_decomposition(), the
\* one being grown included, is totally ordered from least to greatest:
\* lt(chain[i], chain[j]) for all positions i < j.
Ascending(c) ==
    \A i \in DOMAIN c : \A j \in DOMAIN c : i < j => lt(c[i], c[j])

C3_ChainsAscend ==
    ValidPartialOrder =>
        /\ Ascending(chain)
        /\ \A k \in DOMAIN chains : Ascending(chains[k])
        /\ (ret.kind = "decomposition" /\ ret.res.ok) =>
              \A k \in DOMAIN ret.res.val : Ascending(ret.res.val[k])

\* A returned decomposition with a chain of three elements and another chain.
C3_Witness ==
    /\ ValidPartialOrder
    /\ step = "done"
    /\ ret.kind = "decomposition"
    /\ ret.res.ok
    /\ Len(ret.res.val) >= 2
    /\ \E k \in DOMAIN ret.res.val : Len(ret.res.val[k]) >= 3

-----------------------------------------------------------------------------
\* C4: when chain_from_pool is given a non-empty pool in which every element
\* has another strictly below it, the call returns the "no minimal element"
\* error to the caller; it does not crash.
C4_NoMinimalReturnsError ==
    (other # <<>> /\ \A i \in DOMAIN other : \E j \in DOMAIN other :
                        lt(other[j], other[i]))
        => /\ step = "done"
           /\ ret.kind = "decomposition"
           /\ ~ret.res.ok

-----------------------------------------------------------------------------
\* C5: chain_decomposition() terminates for every element list and every
\* relation.  The pass of the chain-extension loop is a function of `latest`
\* and the pool snapshot alone, so the loop stops exactly if it never
\* appends an element it has appended before.
C5_ExtensionLoopStops ==
    \A i \in DOMAIN chain : \A j \in DOMAIN chain : i < j => chain[i] # chain[j]

-----------------------------------------------------------------------------
\* The odometer the enumeration is specified by: chain i is a digit with
\* Len(vectors[i]) + 1 values, 0 for unselected and d for selected index
\* d - 1, the rightmost chain the least significant.

RECURSIVE StatesFrom(_)
StatesFrom(i) ==
    IF i > Len(vectors) THEN 1 ELSE (Len(vectors[i]) + 1) * StatesFrom(i + 1)

TotalStates == StatesFrom(1)

OdometerState(r) ==
    [i \in 1..Len(vectors) |->
        LET d == (r \div StatesFrom(i + 1)) % (Len(vectors[i]) + 1)
        IN  IF d = 0 THEN None ELSE Some(d - 1)]

AllUnselected == [i \in 1..Len(vectors) |-> None]

LastState ==
    [i \in 1..Len(vectors) |->
        IF vectors[i] = <<>> THEN None ELSE Some(Len(vectors[i]) - 1)]

\* The elements a state selects, in chain order.
Selected(st) ==
    Concat([i \in 1..Len(vectors) |->
               IF st[i] = None THEN <<>> ELSE <<vectors[i][st[i][1] + 1]>>])

PairwiseIp(c) ==
    \A i \in DOMAIN c : \A j \in DOMAIN c :
        i # j => (<<c[i], c[j]>> \notin compare /\ <<c[j], c[i]>> \notin compare)

Last(s) == s[Len(s)]

-----------------------------------------------------------------------------
\* C6: for any chain list, next() evaluates the chain-state combinations in
\* odometer order (rightmost chain fastest, unselected before index 0 before
\* index 1 ...) and returns exactly those whose selected elements are
\* pairwise incomparable, each in chain order; the first one returned is the
\* empty antichain.
C6_OdometerOrder ==
    /\ [](Iterating =>
            /\ (visited # <<>>) => (emitted # <<>> /\ emitted[1] = <<>>)
            /\ finished = (Len(visited) = TotalStates)
            /\ (~finished) => indices = OdometerState(Len(visited)))
    /\ [][(Iterating' /\ ~Iterating) => (visited' = <<>> /\ emitted' = <<>>)]_vars
    /\ [][(Iterating /\ visited' # visited) =>
            LET st == OdometerState(Len(visited))
            IN  /\ visited' = Append(visited, st)
                /\ emitted' = IF PairwiseIp(Selected(st))
                              THEN Append(emitted, Selected(st))
                              ELSE emitted
                /\ ret' = IF PairwiseIp(Selected(st))
                          THEN [kind |-> "next", item |-> Some(Selected(st))]
                          ELSE ret]_vars
    /\ [][(Iterating /\ visited' = visited) => emitted' = emitted]_vars

\* An exhausted enumeration over several chains, one of them longer than one
\* element, that skipped a combination and returned a two-element antichain.
C6_Witness ==
    /\ Iterating
    /\ finished
    /\ Len(vectors) >= 2
    /\ \E i \in DOMAIN vectors : Len(vectors[i]) >= 2
    /\ Len(emitted) < Len(visited)
    /\ \E k \in DOMAIN emitted : Len(emitted[k]) = 2

-----------------------------------------------------------------------------
\* C7: the enumeration is finite and cannot be restarted: the state evaluated
\* just before the counter wraps is still returned if it is an antichain,
\* the all-unselected state is evaluated once only, every next() after
\* exhaustion returns None, and an empty chain list yields exactly the
\* empty antichain.
C7_ExhaustionIsFinal ==
    /\ [](Iterating =>
            /\ \A k \in DOMAIN visited : (k > 1) => visited[k] # AllUnselected
            /\ finished =>
                  /\ visited # <<>>
                  /\ Last(visited) = LastState
                  /\ indices = AllUnselected
                  /\ PairwiseIp(Selected(LastState)) =>
                        (emitted # <<>> /\ Last(emitted) = Selected(LastState))
            /\ (finished /\ vectors = <<>>) => emitted = << <<>> >>)
    /\ [][(Iterating /\ finished) =>
            (Iterating' => /\ ret' = [kind |-> "next", item |-> None]
                           /\ UNCHANGED iterVars)]_vars

\* next() called on an exhausted enumeration whose last state was returned.
C7_Witness ==
    /\ step = "iter"
    /\ finished
    /\ ret = [kind |-> "next", item |-> None]
    /\ Len(vectors) >= 2
    /\ Len(Last(emitted)) >= 2
    /\ Last(emitted) = Selected(LastState)

-----------------------------------------------------------------------------
\* C10: over chains of lengths L_1..L_n the enumerator evaluates exactly the
\* product of the (L_i + 1) combinations, the initial all-unselected one
\* included, and none of them twice; a zero-length chain stays unselected.
C10_StateCount ==
    Iterating =>
        /\ Len(visited) <= TotalStates
        /\ finished => Len(visited) = TotalStates
        /\ Cardinality(Range(visited)) = Len(visited)
        /\ \A i \in DOMAIN vectors : vectors[i] = <<>> =>
              /\ indices[i] = None
              /\ \A k \in DOMAIN visited : visited[k][i] = None

\* An exhausted enumeration over an empty chain and a chain of two elements.
C10_Witness ==
    /\ Iterating
    /\ finished
    /\ \E i \in DOMAIN vectors : vectors[i] = <<>>
    /\ \E i \in DOMAIN vectors : Len(vectors[i]) >= 2
    /\ Len(visited) = 3

-----------------------------------------------------------------------------
\* C2: under a valid partial order, antichains(chain_decomposition()) run to
\* exhaustion returns every antichain of the poset (every set of pairwise
\* incomparable elements, the empty one included) exactly once and nothing
\* else; for divisibility over 1..=15 that is 1133 antichains.
Antichains ==
    {S \in SUBSET Range(elements) : \A a \in S : \A b \in S : a # b => ip(a, b)}

C2_AllAntichainsOnce ==
    (ValidPartialOrder /\ Iterating /\ vectors = chains /\ finished) =>
        /\ {Range(emitted[k]) : k \in DOMAIN emitted} = Antichains
        /\ Cardinality(Antichains) = Len(emitted)
        /\ \A k \in DOMAIN emitted : Cardinality(Range(emitted[k])) = Len(emitted[k])
        /\ (elements = DocElements /\ compare = DocCompare) => Len(emitted) = 1133

\* An exhausted enumeration over the decomposition of four distinct
\* elements into two chains, with a two-element antichain among the results.
C2_Witness ==
    /\ ValidPartialOrder
    /\ Cardinality(Range(elements)) = 4
    /\ Iterating
    /\ vectors = chains
    /\ Len(chains) = 2
    /\ finished
    /\ \E k \in DOMAIN emitted : Len(emitted[k]) = 2

====
